---- MODULE Spec2Model ----
(***************************************************************************)
(* Model of the plasma renderer: the genome-to-pixel pipeline              *)
(* (colormapper.rs, renderer.rs), the asynchronous render scheduler        *)
(* (asyncrenderer.rs) and the command-line configuration (main.rs).        *)
(*                                                                         *)
(* Real numbers are kept as exact fractions: a byte b stands for b/256 or  *)
(* b/255 as the source divides it, and renderer coordinates, field values  *)
(* and times are integers counted in units of 1/FixedPointOne.             *)
(***************************************************************************)
EXTENDS Integers, Sequences, FiniteSets, TLC

(***************************************************************************)
(* Bounds of the model                                                     *)
(***************************************************************************)
MaxCalls == 3
MaxDim == 2
MaxTick == 1
NumCpus == 2
FixedPointOne == 1024

(***************************************************************************)
(* Option values                                                           *)
(***************************************************************************)
None == <<>>
Some(x) == <<x>>
is_some(o) == o # None
is_none(o) == o = None
unwrap(o) == o[1]

(***************************************************************************)
(* u32 arithmetic.  A u32 is the pair <<high half, low half>> of its two   *)
(* 16-bit halves, so that the largest value, <<65535, 65535>>, and the     *)
(* wrap to zero are represented exactly.                                   *)
(***************************************************************************)
HalfWord == 65536
U32Zero == <<0, 0>>
U32Max == <<HalfWord - 1, HalfWord - 1>>
U32Less(a, b) == a[1] < b[1] \/ (a[1] = b[1] /\ a[2] < b[2])

wrapping_add_one(v) ==
    IF v[2] = HalfWord - 1 THEN <<(v[1] + 1) % HalfWord, 0>>
    ELSE <<v[1], v[2] + 1>>

(***************************************************************************)
(* FastMath helpers on fixed-point numbers                                 *)
(***************************************************************************)
wrap(v) == v % FixedPointOne
clamp(v, lo, hi) == IF v < lo THEN lo ELSE IF v > hi THEN hi ELSE v
Min(a, b) == IF a < b THEN a ELSE b
\* round(n/d) for n >= 0, d > 0, halves away from zero as f32::round
RoundDiv(n, d) == (2 * n + d) \div (2 * d)

(***************************************************************************)
(* colormapper.rs: Color::from_hsv, ControlPoint::from_gene                *)
(***************************************************************************)
LOOKUP_TABLE_SIZE == 256
CONTROL_POINT_GENE_SIZE == 5
activation_threshold == 160

Color_new(r, g, b) == [r |-> r, g |-> g, b |-> b]

\* (h*6.0).floor() % 6.0 for the hue h256/256, wrapped into [0, 1)
hsv_sector(h256) == (((h256 % 256) * 6) \div 256) % 6

\* the match on the sector has an arm for 0.0 .. 5.0 and panics otherwise
from_hsv_panics(h256) == hsv_sector(h256) \notin 0..5

\* hue = h256/256, saturation = s255/255, value = v255/255
from_hsv(h256, s255, v255) ==
    LET h      == h256 % 256
        s      == clamp(s255, 0, 255)
        v      == clamp(v255, 0, 255)
        sector == hsv_sector(h256)
        offset == (h * 6) % 256
        den    == 255 * 256
        \* the three channel shapes, each already multiplied by 255
        upper  == v * den
        lower  == v * (255 - s) * 256
        rising  == lower + v * s * offset
        falling == upper - v * s * offset
        rgb == CASE sector = 0 -> <<upper, rising, lower>>
                 [] sector = 1 -> <<falling, upper, lower>>
                 [] sector = 2 -> <<lower, upper, rising>>
                 [] sector = 3 -> <<lower, falling, upper>>
                 [] sector = 4 -> <<rising, lower, upper>>
                 [] sector = 5 -> <<upper, lower, falling>>
    IN  Color_new(RoundDiv(rgb[1], den), RoundDiv(rgb[2], den), RoundDiv(rgb[3], den))

\* from_gene with a gene that is active from the threshold itself
from_gene_inclusive(gene) ==
    IF gene[1] >= activation_threshold
    THEN Some([color |-> from_hsv(gene[2], gene[3], gene[4]), position |-> gene[5]])
    ELSE None

\* position is kept as its numerator over 256
from_gene(gene) ==
    IF gene[1] > activation_threshold
    THEN Some([color |-> from_hsv(gene[2], gene[3], gene[4]), position |-> gene[5]])
    ELSE None

\* a call of from_gene on a Gene of any length: the assert on the length,
\* then the panic of from_hsv, then the value returned
call_from_gene(gene) ==
    IF Len(gene) # CONTROL_POINT_GENE_SIZE
    THEN [panicked |-> TRUE, value |-> None]
    ELSE IF is_some(from_gene(gene)) /\ from_hsv_panics(gene[2])
    THEN [panicked |-> TRUE, value |-> None]
    ELSE [panicked |-> FALSE, value |-> from_gene(gene)]

(***************************************************************************)
(* Gradient: control points on a circle of circumference 256/256, sorted   *)
(* by position, the last one joined to the first across the wrap point;    *)
(* one black point at 0 when there is none.                                *)
(***************************************************************************)
RECURSIVE InsertByPosition(_, _)
InsertByPosition(cp, sorted) ==
    IF sorted = <<>> THEN <<cp>>
    ELSE IF cp.position < Head(sorted).position THEN <<cp>> \o sorted
    ELSE <<Head(sorted)>> \o InsertByPosition(cp, Tail(sorted))

RECURSIVE SortByPosition(_)
SortByPosition(cps) ==
    IF cps = <<>> THEN <<>>
    ELSE InsertByPosition(cps[Len(cps)], SortByPosition(SubSeq(cps, 1, Len(cps) - 1)))

Gradient_new(control_points) ==
    IF control_points = <<>>
    THEN <<[color |-> Color_new(0, 0, 0), position |-> 0]>>
    ELSE SortByPosition(control_points)

\* colour of the gradient at position p256/256
Gradient_color_at(gradient, p256) ==
    LET n     == Len(gradient)
        below == {i \in 1..n : gradient[i].position <= p256}
        above == {i \in 1..n : gradient[i].position > p256}
        li    == IF below = {} THEN n ELSE CHOOSE i \in below : \A j \in below : j <= i
        ri    == IF above = {} THEN 1 ELSE CHOOSE i \in above : \A j \in above : i <= j
        lpos  == IF below = {} THEN gradient[li].position - 256 ELSE gradient[li].position
        rpos  == IF above = {} THEN gradient[ri].position + 256 ELSE gradient[ri].position
        span  == rpos - lpos
        off   == p256 - lpos
        mix(a, b) == RoundDiv(a * (span - off) + b * off, span)
        lc    == gradient[li].color
        rc    == gradient[ri].color
    IN  Color_new(mix(lc.r, rc.r), mix(lc.g, rc.g), mix(lc.b, rc.b))

RECURSIVE decode_control_points(_)
decode_control_points(genes) ==
    IF genes = <<>> THEN <<>>
    ELSE LET cp == from_gene(Head(genes))
         IN  (IF is_some(cp) THEN <<unwrap(cp)>> ELSE <<>>) \o decode_control_points(Tail(genes))

\* the mapper keeps the gradient its table is sampled from
ColorMapper_new(chromosome, settings) ==
    [gradient |-> Gradient_new(decode_control_points(chromosome))]

\* the lookup table: the gradient sampled at i/256 for each index i
lookup_table(cm) ==
    [i \in 0..(LOOKUP_TABLE_SIZE - 1) |-> Gradient_color_at(cm.gradient, i)]

\* value is a fixed-point field value
get_nearest_color(cm, value) ==
    lookup_table(cm)[((wrap(value) * LOOKUP_TABLE_SIZE) \div FixedPointOne) % LOOKUP_TABLE_SIZE]

\* ordered 2x2 dither: the index is moved by a fixed offset of the pixel
\* before it is cut to a table index
get_dithered_color(cm, value, x, y) ==
    LET bayer == <<0, 2, 3, 1>>
        delta == bayer[(x % 2) + 2 * (y % 2) + 1] - 1
        index == ((wrap(value) * LOOKUP_TABLE_SIZE) \div FixedPointOne) + delta
    IN  lookup_table(cm)[index % LOOKUP_TABLE_SIZE]

(***************************************************************************)
(* Field formula engine: one term per pattern gene, and the current time   *)
(***************************************************************************)
decode_formula_params(gene) ==
    \* frequencies in quarters of a turn per unit
    [freq_x |-> gene[1] % 8, freq_y |-> gene[2] % 8, freq_t |-> 1 + (gene[3] % 2),
     phase |-> (gene[4] * FixedPointOne) \div 256]

PlasmaFormulas_from_chromosome(chromosome) ==
    [params |-> [i \in 1..Len(chromosome) |-> decode_formula_params(chromosome[i])],
     time |-> 0]

set_time(formulas, t) == [formulas EXCEPT !.time = t]

RECURSIVE SumTerms(_, _, _, _)
SumTerms(params, x, y, t) ==
    IF params = <<>> THEN 0
    ELSE LET p == Head(params)
         IN  wrap(((p.freq_x * x + p.freq_y * y) \div 4) + p.freq_t * t + p.phase)
             + SumTerms(Tail(params), x, y, t)

get_value(formulas, x, y) == SumTerms(formulas.params, x, y, formulas.time)

(***************************************************************************)
(* renderer.rs: Image, PlasmaRenderer                                      *)
(***************************************************************************)
Image_new(width, height) ==
    [width |-> width, height |-> height,
     pixel_data |-> [k \in 1..(width * height * 3) |-> 0]]

PlasmaRenderer_new(genome, settings) ==
    [color_mapper |-> ColorMapper_new(genome.color, settings),
     dithering |-> settings.dithering,
     formulas |-> PlasmaFormulas_from_chromosome(genome.pattern)]

\* the colour the loop body plots at pixel (x, y)
pixel_color(dithering, color_mapper, formulas, x, y, scale_mul, scale_x_offset, scale_y_offset) ==
    LET value == get_value(formulas, scale_mul * x + scale_x_offset,
                                     scale_mul * y + scale_y_offset)
    IN  IF dithering
        THEN get_dithered_color(color_mapper, value, x, y)
        ELSE get_nearest_color(color_mapper, value)

\* the bytes Image::plot writes for the pixels n, n + 1, ... in the order of the
\* two loops, pixel n being (n % width, n \div width): its three bytes go to
\* offset (x + y*width)*3 = 3n, so the bytes follow each other in pixel_data
RECURSIVE plotted(_, _, _, _, _, _, _, _)
plotted(dithering, color_mapper, formulas, image, n, scale_mul, scale_x_offset, scale_y_offset) ==
    IF n >= image.width * image.height THEN <<>>
    ELSE LET color == pixel_color(dithering, color_mapper, formulas,
                                  n % image.width, n \div image.width,
                                  scale_mul, scale_x_offset, scale_y_offset)
         IN  <<color.r, color.g, color.b>>
             \o plotted(dithering, color_mapper, formulas, image, n + 1,
                        scale_mul, scale_x_offset, scale_y_offset)

\* the two loops: every pixel of the image is plotted once, so every byte of
\* the zeroed buffer is overwritten
render_pixels(dithering, color_mapper, formulas, image, scale_mul, scale_x_offset, scale_y_offset) ==
    [image EXCEPT !.pixel_data = plotted(dithering, color_mapper, formulas, image, 0,
                                         scale_mul, scale_x_offset, scale_y_offset)]

\* a render that draws with the time of the previous call and stores the
\* new time afterwards
render_then_set_time(self, image, time) ==
    LET scale_mul == (2 * FixedPointOne) \div Min(image.width, image.height)
        scale_x_offset == 0 - ((image.width * scale_mul) \div 2)
        scale_y_offset == 0 - ((image.height * scale_mul) \div 2)
        adj_time == wrap(time)
    IN  [self |-> [self EXCEPT !.formulas = set_time(self.formulas, adj_time)],
         image |-> render_pixels(self.dithering, self.color_mapper, self.formulas, image,
                                 scale_mul, scale_x_offset, scale_y_offset)]

\* PlasmaRenderer::render: the renderer after the call and the image written
PlasmaRenderer_render(self, image, time) ==
    LET scale_mul == (2 * FixedPointOne) \div Min(image.width, image.height)
        scale_x_offset == 0 - ((image.width * scale_mul) \div 2)
        scale_y_offset == 0 - ((image.height * scale_mul) \div 2)
        adj_time == wrap(time)
        formulas == set_time(self.formulas, adj_time)
    IN  [self |-> [self EXCEPT !.formulas = formulas],
         image |-> render_pixels(self.dithering, self.color_mapper, formulas, image,
                                 scale_mul, scale_x_offset, scale_y_offset)]

(***************************************************************************)
(* Inputs                                                                  *)
(***************************************************************************)
GenomeA == [pattern |-> <<<<1, 2, 0, 10>>, <<3, 1, 1, 200>>>>,
            color   |-> <<<<255, 0, 255, 255, 0>>, <<200, 100, 255, 255, 128>>,
                          <<100, 7, 7, 7, 7>>>>]
GenomeB == [pattern |-> <<<<2, 3, 1, 77>>, <<1, 1, 0, 130>>>>,
            color   |-> <<<<161, 170, 200, 255, 64>>, <<160, 1, 2, 3, 4>>,
                          <<255, 40, 128, 90, 250>>>>]
Genomes == {GenomeA, GenomeB}

dummy_settings(dithering) ==
    [dithering |-> dithering, frames_per_second |-> 16, loop_duration |-> 60,
     palette_size |-> None, width |-> 32, height |-> 32]
SettingsSet == {dummy_settings(FALSE), dummy_settings(TRUE)}

\* image sizes: width k and height MaxDim + 1 - k, from tall to wide
Quarter == FixedPointOne \div 4
Widths == 1..MaxDim
HeightFor(width) == MaxDim + 1 - width
\* the scheduler is asked for each size at a time of its own: 0, 1/4, ...
RenderArgs == {<<k, HeightFor(k), (k - 1) * Quarter>> : k \in Widths}
\* the direct renderers are given every size at every time: the quarters
\* 0, 1/4, ... and -1/4, which wraps to 3/4
Times == {k * Quarter : k \in 0..MaxTick}
RenderTimes == Times \cup {0 - Quarter}

(***************************************************************************)
(* asyncrenderer.rs: the scheduler                                         *)
(***************************************************************************)
VARIABLES
    last_request_id,  \* AsyncRenderer.last_request_id
    genome,           \* AsyncRenderer.genome, an Option
    genome_set,       \* AsyncRenderer.genome_set
    settings,         \* AsyncRenderer.settings
    pool,             \* the jobs given to the CpuPool, in submission order;
                      \* job j's entry is also what its CpuFuture yields
    requests,         \* the Request of each job
    slot,             \* the latest response installed by a worker, an Option
    got,              \* what the last get_image query returned, an Option
    queried,          \* flips at every get_image query
    queried_at,       \* how many calls had been made at the last query
    delivered,        \* delivered[j]: how many queries returned job j's image
    status,           \* "ok", or the panic that ended the control thread
    history,          \* the set_genome / render calls made so far
    renderers,        \* PlasmaRenderers used directly, as the file exporter does
    rendered,         \* per direct renderer: its last render call and image
    matches,          \* main.rs: the parsed command line, an Option
    outcome,          \* main.rs: how main went on after build_plasma_settings
    gene,             \* the Gene last given to ControlPoint::from_gene, an Option
    decoded           \* how that call of from_gene ended, an Option

vars == <<last_request_id, genome, genome_set, settings, pool, requests, slot,
          got, queried, queried_at, delivered, status, history,
          renderers, rendered, matches, outcome, gene, decoded>>

sched_vars == <<last_request_id, genome, genome_set, settings, pool, requests, slot,
                got, queried, queried_at, delivered, status, history>>

\* no direct renderer and no command line: the scheduler on its own
NoDirectRenderer == renderers = <<>> /\ rendered = <<>>
NoCommandLine == matches = None /\ outcome = None
NoGeneDecoded == gene = None /\ decoded = None

AsyncRenderer_new(s, start_id) ==
    /\ last_request_id = start_id
    /\ genome = None
    /\ genome_set = FALSE
    /\ settings = s
    /\ pool = <<>>
    /\ requests = <<>>
    /\ slot = None
    /\ got = None
    /\ queried = FALSE
    /\ queried_at = 0
    /\ delivered = <<>>
    /\ status = "ok"
    /\ history = <<>>

Init ==
    /\ \E s \in SettingsSet : AsyncRenderer_new(s, U32Zero)
    /\ NoDirectRenderer
    /\ NoCommandLine
    /\ NoGeneDecoded

\* a counter that is not advanced
next_request_id_stuck(id) == id

\* a counter advanced in its low half only
next_request_id_u16(id) == <<id[1], (id[2] + 1) % HalfWord>>

next_request_id(id) == wrapping_add_one(id)

\* set_genome that raises the flag without storing the genome
set_genome_flag_only(g) ==
    /\ status = "ok"
    /\ Len(history) < MaxCalls
    /\ genome_set' = TRUE
    /\ last_request_id' = next_request_id(last_request_id)
    /\ history' = Append(history, <<"set_genome", g>>)
    /\ UNCHANGED <<genome, settings, pool, requests, slot, got, queried, queried_at,
                   delivered, status, renderers, rendered, matches, outcome, gene, decoded>>

set_genome(g) ==
    /\ status = "ok"
    /\ Len(history) < MaxCalls
    /\ genome' = Some(g)
    /\ genome_set' = TRUE
    /\ last_request_id' = next_request_id(last_request_id)
    /\ history' = Append(history, <<"set_genome", g>>)
    /\ UNCHANGED <<settings, pool, requests, slot, got, queried, queried_at,
                   delivered, status, renderers, rendered, matches, outcome, gene, decoded>>

\* a closure that builds its image with width and height exchanged
spawn_fn_swapped(renderer, width, height, time) ==
    [renderer |-> renderer, width |-> height, height |-> width, time |-> time,
     state |-> "queued", image |-> None]

\* the closure handed to pool.spawn_fn, with the renderer built by the caller
spawn_fn(renderer, width, height, time) ==
    [renderer |-> renderer, width |-> width, height |-> height, time |-> time,
     state |-> "queued", image |-> None]

\* what the closure computes when a worker runs it
run_job(job) ==
    PlasmaRenderer_render(job.renderer, Image_new(job.width, job.height), job.time).image

\* the id render() leaves in the counter for the request it creates
render_request_id(id) == id

Request_new(id, g, width, height, time) ==
    [request_id |-> id, genome |-> g, width |-> width, height |-> height, time |-> time]

render(width, height, time) ==
    /\ status = "ok"
    /\ Len(history) < MaxCalls
    /\ history' = Append(history, <<"render", width, height, time>>)
    /\ IF ~genome_set
       THEN /\ status' = "assert_failed"
            /\ UNCHANGED <<last_request_id, pool, requests, delivered>>
       ELSE IF is_none(genome)
       THEN /\ status' = "unwrap_failed"
            /\ UNCHANGED <<last_request_id, pool, requests, delivered>>
       ELSE /\ last_request_id' = render_request_id(last_request_id)
            /\ pool' = Append(pool, spawn_fn(PlasmaRenderer_new(unwrap(genome), settings),
                                             width, height, time))
            /\ requests' = Append(requests,
                                  Request_new(last_request_id', genome, width, height, time))
            /\ delivered' = Append(delivered, 0)
            /\ UNCHANGED status
    /\ UNCHANGED <<genome, genome_set, settings, slot, got, queried, queried_at,
                   renderers, rendered, matches, outcome, gene, decoded>>

Running == {j \in 1..Len(pool) : pool[j].state = "running"}

\* a free worker thread takes the oldest queued job
WorkerStart(j) ==
    /\ j \in 1..Len(pool)
    /\ pool[j].state = "queued"
    /\ \A i \in 1..(j - 1) : pool[i].state # "queued"
    /\ Cardinality(Running) < NumCpus
    /\ pool' = [pool EXCEPT ![j].state = "running"]
    /\ UNCHANGED <<last_request_id, genome, genome_set, settings, requests, slot,
                   got, queried, queried_at, delivered, status, history,
                   renderers, rendered, matches, outcome, gene, decoded>>

Response_new(image, id, j) == [image |-> image, request_id |-> id, job |-> j]

\* a finished job's response goes into the slot only if its request is still current
install(cur_slot, response, current_id) ==
    IF response.request_id = current_id THEN Some(response) ELSE cur_slot

\* the job's closure returns: its future is complete, its response is offered
WorkerFinish(j) ==
    /\ j \in 1..Len(pool)
    /\ pool[j].state = "running"
    /\ \E image \in {run_job(pool[j])} :
           /\ pool' = [pool EXCEPT ![j].state = "done", ![j].image = Some(image)]
           /\ slot' = install(slot, Response_new(image, requests[j].request_id, j),
                              last_request_id)
    /\ UNCHANGED <<last_request_id, genome, genome_set, settings, requests,
                   got, queried, queried_at, delivered, status, history,
                   renderers, rendered, matches, outcome, gene, decoded>>

\* the authoritative response if one is ready, else None
current_response(cur_slot, current_id) ==
    IF is_some(cur_slot) /\ unwrap(cur_slot).request_id = current_id THEN cur_slot ELSE None

get_image ==
    /\ status = "ok"
    /\ got' = current_response(slot, last_request_id)
    /\ queried' = ~queried
    /\ queried_at' = Len(history)
    /\ IF is_some(got')
       THEN /\ slot' = None
            /\ delivered' = [delivered EXCEPT ![unwrap(got').job] = Min(@ + 1, 2)]
       ELSE UNCHANGED <<slot, delivered>>
    /\ UNCHANGED <<last_request_id, genome, genome_set, settings, pool, requests,
                   status, history, renderers, rendered, matches, outcome, gene, decoded>>

Next ==
    \/ \E g \in Genomes : set_genome(g)
    \/ \E a \in RenderArgs : render(a[1], a[2], a[3])
    \/ \E j \in 1..Len(pool) : WorkerStart(j)
    \/ \E j \in 1..Len(pool) : WorkerFinish(j)
    \/ get_image

Spec == Init /\ [][Next]_vars

\* the worker pool keeps running the jobs it was given (there are finitely
\* many, so none is passed over for ever), and the caller keeps polling
Worker == \E j \in 1..Len(pool) : WorkerStart(j) \/ WorkerFinish(j)

FairSpec ==
    /\ Spec
    /\ WF_vars(get_image)
    /\ WF_vars(Worker)

\* a scheduler that has been in use until its counter is about to run out:
\* the counter just below a 16-bit or the 32-bit boundary, a genome set, no job left
NearWrapIds == {<<0, HalfWord - 2>>, <<HalfWord - 1, HalfWord - 2>>}

InitNearWrap ==
    \E s \in SettingsSet, g \in Genomes, id \in NearWrapIds :
        /\ last_request_id = id
        /\ genome = Some(g)
        /\ genome_set = TRUE
        /\ settings = s
        /\ pool = <<>>
        /\ requests = <<>>
        /\ slot = None
        /\ got = None
        /\ queried = FALSE
        /\ queried_at = 0
        /\ delivered = <<>>
        /\ status = "ok"
        /\ history = <<<<"set_genome", g>>>>
        /\ NoDirectRenderer
        /\ NoCommandLine
        /\ NoGeneDecoded

SpecWrap == InitNearWrap /\ [][Next]_vars

(***************************************************************************)
(* Reading the calls back from the history                                 *)
(***************************************************************************)
IsCall(i, name) == history[i][1] = name
CallStep(name) == Len(history') > Len(history) /\ history'[Len(history')][1] = name
GetImageStep == queried' # queried

SetGenomeCalls == {i \in 1..Len(history) : IsCall(i, "set_genome")}
RenderCalls == {i \in 1..Len(history) : IsCall(i, "render")}

\* the call that submitted job j: the j-th render call
CallOfJob(j) ==
    CHOOSE i \in RenderCalls : Cardinality({k \in RenderCalls : k <= i}) = j

\* the genome that was current when call i was made
GenomeAtCall(i) ==
    LET before == {k \in SetGenomeCalls : k < i}
    IN  history[CHOOSE k \in before : \A m \in before : m <= k][2]

\* the number of jobs submitted before the last set_genome call
JobsBeforeLastSetGenome ==
    IF SetGenomeCalls = {} THEN 0
    ELSE LET last == CHOOSE k \in SetGenomeCalls : \A m \in SetGenomeCalls : m <= k
         IN  Cardinality({k \in RenderCalls : k < last})

\* test_asyncrenderer_singlerender: a PlasmaRenderer used directly
direct_render(g, s, width, height, time) ==
    PlasmaRenderer_render(PlasmaRenderer_new(g, s), Image_new(width, height), time).image

(***************************************************************************)
(* renderer.rs used directly: two PlasmaRenderers built from one genome    *)
(* and one settings value, each rendering frame after frame                *)
(***************************************************************************)
InitRender ==
    /\ \E g \in Genomes, s \in SettingsSet :
         /\ AsyncRenderer_new(s, U32Zero)
         /\ renderers = [i \in 1..2 |-> [self |-> PlasmaRenderer_new(g, s),
                                         genome |-> g, settings |-> s]]
    /\ rendered = [i \in 1..2 |-> None]
    /\ NoCommandLine
    /\ NoGeneDecoded

RenderDirect(i, width, height, time) ==
    /\ \E r \in {PlasmaRenderer_render(renderers[i].self, Image_new(width, height), time)} :
         /\ renderers' = [renderers EXCEPT ![i].self = r.self]
         /\ rendered' = [rendered EXCEPT ![i] =
                Some([width |-> width, height |-> height, time |-> time, image |-> r.image,
                      calls |-> IF is_some(@) THEN 2 ELSE 1])]
    /\ UNCHANGED <<sched_vars, matches, outcome, gene, decoded>>

NextRender ==
    \E i \in 1..2, w \in Widths, t \in RenderTimes : RenderDirect(i, w, HeightFor(w), t)

SpecRender == InitRender /\ [][NextRender]_vars

(***************************************************************************)
(* Genome text: Base64 over the pattern genes' bytes followed by the       *)
(* colour genes' bytes.  A text is a sequence of one-character strings.    *)
(***************************************************************************)
NUM_FORMULA_GENES == 2
FORMULA_GENE_SIZE == 4
NUM_COLOR_GENES == 3
GENOME_BYTES == NUM_FORMULA_GENES * FORMULA_GENE_SIZE + NUM_COLOR_GENES * CONTROL_POINT_GENE_SIZE

Base64Alphabet ==
    <<"A", "B", "C", "D", "E", "F", "G", "H", "I", "J", "K", "L", "M", "N", "O", "P",
      "Q", "R", "S", "T", "U", "V", "W", "X", "Y", "Z", "a", "b", "c", "d", "e", "f",
      "g", "h", "i", "j", "k", "l", "m", "n", "o", "p", "q", "r", "s", "t", "u", "v",
      "w", "x", "y", "z", "0", "1", "2", "3", "4", "5", "6", "7", "8", "9", "+", "/">>

IsBase64Char(c) == \E i \in 1..64 : Base64Alphabet[i] = c
Base64Value(c) == (CHOOSE i \in 1..64 : Base64Alphabet[i] = c) - 1

\* the bytes of one group of four characters, the last group padded with "="
Base64Group(g) ==
    LET pad == IF g[3] = "=" THEN 2 ELSE IF g[4] = "=" THEN 1 ELSE 0
        v1 == Base64Value(g[1])
        v2 == Base64Value(g[2])
        v3 == IF pad = 2 THEN 0 ELSE Base64Value(g[3])
        v4 == IF pad >= 1 THEN 0 ELSE Base64Value(g[4])
        bytes == <<v1 * 4 + (v2 \div 16), (v2 % 16) * 16 + (v3 \div 4), (v3 % 4) * 64 + v4>>
    IN  SubSeq(bytes, 1, 3 - pad)

\* padding is allowed at the end of the last group only
Base64WellFormed(text) ==
    /\ Len(text) % 4 = 0
    /\ \A i \in 1..Len(text) :
         \/ IsBase64Char(text[i])
         \/ /\ text[i] = "="
            /\ i >= Len(text) - 1
            /\ i = Len(text) \/ text[Len(text)] = "="

RECURSIVE Base64Bytes(_)
Base64Bytes(text) ==
    IF text = <<>> THEN <<>>
    ELSE Base64Group(SubSeq(text, 1, 4)) \o Base64Bytes(SubSeq(text, 5, Len(text)))

base64_decode(text) ==
    IF Base64WellFormed(text) THEN [tag |-> "Ok", value |-> Base64Bytes(text)]
    ELSE [tag |-> "Err"]

\* the genes of a chromosome: count genes of size bytes each, from offset on
Chromosome_from_bytes(bytes, offset, count, size) ==
    [i \in 1..count |-> SubSeq(bytes, offset + (i - 1) * size + 1, offset + i * size)]

from_base64(text) ==
    LET d == base64_decode(text)
    IN  IF d.tag = "Err" THEN [tag |-> "Err"]
        ELSE IF Len(d.value) # GENOME_BYTES THEN [tag |-> "Err"]
        ELSE [tag |-> "Ok",
              value |-> [pattern |-> Chromosome_from_bytes(d.value, 0, NUM_FORMULA_GENES,
                                                           FORMULA_GENE_SIZE),
                         color |-> Chromosome_from_bytes(d.value,
                                       NUM_FORMULA_GENES * FORMULA_GENE_SIZE,
                                       NUM_COLOR_GENES, CONTROL_POINT_GENE_SIZE)]]

\* str::trim
RECURSIVE trim_start(_)
trim_start(text) ==
    IF text # <<>> /\ Head(text) = " " THEN trim_start(Tail(text)) ELSE text
RECURSIVE trim_end(_)
trim_end(text) ==
    IF text # <<>> /\ text[Len(text)] = " " THEN trim_end(SubSeq(text, 1, Len(text) - 1))
    ELSE text
trim(text) == trim_end(trim_start(text))

\* str::parse on the option texts used below: the number, or None
parse_number(text) ==
    CASE text = "0" -> Some(0)
      [] text = "8" -> Some(8)
      [] text = "10" -> Some(10)
      [] text = "64" -> Some(64)
      [] text = "256" -> Some(256)
      [] OTHER -> None

(***************************************************************************)
(* main.rs: build_plasma_settings and main                                 *)
(***************************************************************************)
STARTING_POPULATION_SIZE == 8
MAX_POPULATION_SIZE == 32
Max(a, b) == IF a > b THEN a ELSE b

Ok(v) == [tag |-> "Ok", value |-> v]
Err(message) == [tag |-> "Err", message |-> message]
Exit(code, message) == [tag |-> "Exit", code |-> code, message |-> message]

\* the loop over the free arguments: the genomes, or the first text that
\* does not parse
RECURSIVE parse_free_arguments(_, _)
parse_free_arguments(genome_strings, genomes) ==
    IF genome_strings = <<>> THEN Ok(genomes)
    ELSE LET r == from_base64(Head(genome_strings))
         IN  IF r.tag = "Ok"
             THEN parse_free_arguments(Tail(genome_strings), Append(genomes, r.value))
             ELSE Err(<<"Couldn't parse", Head(genome_strings)>>)

\* the loop over the lines of the input file
RECURSIVE parse_file_lines(_, _)
parse_file_lines(lines, genomes) ==
    IF lines = <<>> THEN Ok(genomes)
    ELSE LET r == from_base64(trim(Head(lines)))
         IN  parse_file_lines(Tail(lines),
                              IF r.tag = "Ok" THEN Append(genomes, r.value) ELSE genomes)

Population_new(max_size) == [max_size |-> max_size, genomes |-> <<>>]
Population_add(population, g) ==
    IF Len(population.genomes) < population.max_size
    THEN [population EXCEPT !.genomes = Append(@, g)]
    ELSE population

RECURSIVE Population_add_all(_, _)
Population_add_all(population, genomes) ==
    IF genomes = <<>> THEN population
    ELSE Population_add_all(Population_add(population, Head(genomes)), Tail(genomes))

\* the rendering settings, or the first option that is out of range
rendering_settings(m, output_mode) ==
    LET base == IF output_mode = None
                THEN [dithering |-> FALSE, frames_per_second |-> 16, loop_duration |-> 60,
                      palette_size |-> None, width |-> 640, height |-> 480]
                ELSE [dithering |-> TRUE, frames_per_second |-> 10, loop_duration |-> 60,
                      palette_size |-> Some(64), width |-> 320, height |-> 240]
        s1 == IF m.d
              THEN [base EXCEPT !.dithering = TRUE,
                                !.palette_size = IF is_none(@) THEN Some(255) ELSE @]
              ELSE base
        f == IF is_some(m.f) THEN parse_number(unwrap(m.f)) ELSE None
        l == IF is_some(m.l) THEN parse_number(unwrap(m.l)) ELSE None
        p == IF is_some(m.p) THEN parse_number(unwrap(m.p)) ELSE None
        w == IF is_some(m.w) THEN parse_number(unwrap(m.w)) ELSE None
        h == IF is_some(m.h) THEN parse_number(unwrap(m.h)) ELSE None
        s2 == IF is_some(m.f) THEN [s1 EXCEPT !.frames_per_second = unwrap(f)] ELSE s1
        s3 == IF is_some(m.l) THEN [s2 EXCEPT !.loop_duration = unwrap(l)] ELSE s2
        s4 == IF is_some(m.p) THEN [s3 EXCEPT !.palette_size = p] ELSE s3
        s5 == IF is_some(m.w) /\ is_some(m.h)
              THEN [s4 EXCEPT !.width = unwrap(w), !.height = unwrap(h)] ELSE s4
    IN  IF is_some(m.f) /\ ~(is_some(f) /\ unwrap(f) > 0)
        THEN Err(<<"Not a positive number", unwrap(m.f)>>)
        ELSE IF is_some(m.l) /\ ~(is_some(l) /\ unwrap(l) > 0)
        THEN Err(<<"Not a positive number", unwrap(m.l)>>)
        ELSE IF is_some(m.p) /\ ~(is_some(p) /\ 2 <= unwrap(p) /\ unwrap(p) <= 255)
        THEN Err(<<"Not an integer from 2 to 255", unwrap(m.p)>>)
        ELSE IF is_some(m.w) /\ is_some(m.h) /\ ~(is_some(w) /\ unwrap(w) > 0)
        THEN Err(<<"Not a positive integer", unwrap(m.w)>>)
        ELSE IF is_some(m.w) /\ is_some(m.h) /\ ~(is_some(h) /\ unwrap(h) > 0)
        THEN Err(<<"Not a positive integer", unwrap(m.h)>>)
        ELSE IF is_some(m.w) # is_some(m.h)
        THEN Err(<<"Width and height must both be specified">>)
        ELSE Ok(s5)

\* m.free holds the genome texts, matches.free[1..]; m.i is None or Some of the
\* input file: whether it can be read, and its lines; random is what
\* Chromosome::rand draws when no genome is given
build_plasma_settings(m, random) ==
    LET free == parse_free_arguments(m.free, <<>>)
        file == IF is_some(m.i) /\ unwrap(m.i).readable
                THEN parse_file_lines(unwrap(m.i).lines, free.value)
                ELSE free
        genomes == IF file.value = <<>> THEN random ELSE file.value
        population == Population_add_all(
                          Population_new(Max(MAX_POPULATION_SIZE, Len(genomes))), genomes)
        rendering == rendering_settings(m, m.o)
    IN  IF free.tag = "Err" THEN free
        ELSE IF is_some(m.i) /\ ~unwrap(m.i).readable
        THEN Exit(1, <<"Couldn't read from", "FILE">>)
        ELSE IF rendering.tag = "Err" THEN rendering
        ELSE Ok([genetics |-> [genome |-> genomes[1], population |-> population],
                 rendering |-> rendering.value,
                 output |-> [mode |-> m.o]])

\* main after the options are parsed: exit with the help text or an error, or
\* go on to write the file or to open the window with the settings
main(m, random) ==
    IF m.help THEN Exit(0, <<"Usage">>)
    ELSE LET r == build_plasma_settings(m, random)
         IN  CASE r.tag = "Err" -> Exit(1, r.message)
               [] r.tag = "Exit" -> r
               [] r.tag = "Ok" ->
                    [tag |-> IF is_some(m.o) THEN "generate_gif" ELSE "run_interactive",
                     params |-> r.value]

TextA ==
    <<"A", "Q", "I", "A", "C", "g", "M", "B", "A", "c", "j", "/", "A", "P", "/", "/",
      "A", "M", "h", "k", "/", "/", "+", "A", "Z", "A", "c", "H", "B", "w", "c", "=">>
TextB ==
    <<"A", "g", "M", "B", "T", "Q", "E", "B", "A", "I", "K", "h", "q", "s", "j", "/",
      "Q", "K", "A", "B", "A", "g", "M", "E", "/", "y", "i", "A", "W", "v", "o", "=">>
TextMalformed == <<"A", "!", "A", "A">>
TextShort == <<"A", "Q", "I", "D">>

MaxTexts == 2
FreeTexts == {TextA, TextMalformed, TextShort}
LineTexts == {<<" ">> \o TextB \o <<" ">>, TextMalformed}
TextLists(texts) == UNION {[1..n -> texts] : n \in 0..MaxTexts}

MatchesSet ==
    [help : BOOLEAN,
     free : TextLists(FreeTexts),
     i : {None, Some([readable |-> FALSE, lines |-> <<>>])}
           \cup {Some([readable |-> TRUE, lines |-> lines]) : lines \in TextLists(LineTexts)},
     o : {None, Some("out.gif")},
     d : BOOLEAN,
     f : {None, Some("10"), Some("x")},
     l : {None, Some("0")},
     p : {None, Some("64"), Some("256")},
     w : {None, Some("8")},
     h : {None, Some("8"), Some("0")}]

RandomDraws ==
    {[k \in 1..STARTING_POPULATION_SIZE |-> GenomeA],
     [k \in 1..STARTING_POPULATION_SIZE |-> IF k % 2 = 1 THEN GenomeB ELSE GenomeA]}

InitCli ==
    /\ AsyncRenderer_new(dummy_settings(FALSE), U32Zero)
    /\ NoDirectRenderer
    /\ matches \in {Some(m) : m \in MatchesSet}
    /\ NoGeneDecoded
    /\ outcome = None

Main ==
    /\ is_some(matches)
    /\ is_none(outcome)
    /\ \E random \in RandomDraws : outcome' = Some(main(unwrap(matches), random))
    /\ UNCHANGED <<sched_vars, renderers, rendered, matches, gene, decoded>>

NextCli == Main

SpecCli == InitCli /\ [][NextCli]_vars

(***************************************************************************)
(* C1. Staleness safety: a get_image query never returns an image whose    *)
(* request id differs from the current request id, and once a newer        *)
(* render() has been issued the image of an older render is never          *)
(* returned.                                                               *)
(***************************************************************************)
StalenessSafety ==
    [][GetImageStep /\ is_some(got')
         => /\ unwrap(got').request_id = last_request_id
            /\ unwrap(got').job = Len(pool)]_vars

(***************************************************************************)
(* C2. Eventual delivery: when render() was the last call and no further   *)
(* render() or set_genome() follows, repeated get_image queries eventually *)
(* return the image of that request, with its width and height.  No call   *)
(* follows the one that uses up the calls of a run.                        *)
(***************************************************************************)
LatestDelivered ==
    /\ Len(pool) > 0
    /\ delivered[Len(pool)] > 0
    /\ unwrap(pool[Len(pool)].image).width = history[CallOfJob(Len(pool))][2]
    /\ unwrap(pool[Len(pool)].image).height = history[CallOfJob(Len(pool))][3]

LastCallIsRender ==
    /\ Len(history) = MaxCalls
    /\ IsCall(MaxCalls, "render")
    /\ status = "ok"

EventualDelivery == LastCallIsRender ~> LatestDelivered

(***************************************************************************)
(* C3. Scheduler equivalence with snapshot isolation: the image a job's    *)
(* handle yields equals the image of a direct PlasmaRenderer built from    *)
(* the genome and settings current at its render() call, for the call's    *)
(* width, height and time.                                                 *)
(***************************************************************************)
SchedulerEquivalence ==
    \A j \in 1..Len(pool) :
        pool[j].state = "done" =>
            LET c == CallOfJob(j)
            IN  pool[j].image = Some(direct_render(GenomeAtCall(c), settings,
                                                   history[c][2], history[c][3], history[c][4]))

\* a job has finished after the genome was changed under it, on an image
\* that is not square
SchedulerEquivalenceWitness ==
    \E j \in 1..Len(pool) :
        /\ pool[j].state = "done"
        /\ pool[j].width # pool[j].height
        /\ GenomeAtCall(CallOfJob(j)) # unwrap(genome)

(***************************************************************************)
(* C4. render() fails its precondition exactly when no set_genome() call   *)
(* was made before it; once set, the scheduler stays Ready and the stored  *)
(* genome is present whenever genome_set holds.                            *)
(***************************************************************************)
RenderPrecondition ==
    /\ [](genome_set <=> SetGenomeCalls # {})
    /\ [](genome_set => is_some(genome))
    /\ [][genome_set => genome_set']_vars
    /\ [][CallStep("render")
            => /\ (status' = "assert_failed") <=> ~genome_set
               /\ (status' = "ok") <=> genome_set
               /\ genome_set => Len(pool') = Len(pool) + 1]_vars

RenderPreconditionWitness ==
    /\ status = "assert_failed"
    /\ ~genome_set
    /\ history # <<>>

(***************************************************************************)
(* C5. set_genome(g) stores g, makes the scheduler Ready and advances the  *)
(* counter; afterwards get_image returns None until a render() issued      *)
(* after the set_genome() completes, never an image of an earlier job or   *)
(* of the previous genome.                                                 *)
(***************************************************************************)
SetGenomeInvalidates ==
    /\ [][CallStep("set_genome")
            => /\ genome' = Some(history'[Len(history')][2])
               /\ genome_set'
               /\ last_request_id' # last_request_id]_vars
    /\ [][GetImageStep /\ is_some(got')
            => /\ unwrap(got').job > JobsBeforeLastSetGenome
               /\ GenomeAtCall(CallOfJob(unwrap(got').job)) = unwrap(genome)]_vars

\* an earlier job's response sits finished in the slot, set_genome was the
\* last call, and the query made after it returned None
SetGenomeInvalidatesWitness ==
    /\ history # <<>>
    /\ IsCall(Len(history), "set_genome")
    /\ queried_at = Len(history)
    /\ is_none(got)
    /\ is_some(slot)
    /\ pool[unwrap(slot).job].state = "done"

(***************************************************************************)
(* C6. Every successful render() advances the request counter: the         *)
(* current id after the call differs from the one before, and the new      *)
(* request carries it, distinct from the id of every request in flight.    *)
(***************************************************************************)
RenderAdvancesId ==
    [][CallStep("render") /\ Len(pool') > Len(pool)
         => /\ last_request_id' # last_request_id
            /\ requests'[Len(pool')].request_id = last_request_id'
            /\ \A j \in 1..Len(pool) :
                 pool[j].state # "done" => requests[j].request_id # last_request_id']_vars

(***************************************************************************)
(* C7. Request ids are monotonically increasing: the counter never         *)
(* decreases and every newly issued id is strictly greater than the ids    *)
(* issued before it, also at the largest 32-bit value.                     *)
(***************************************************************************)
RequestIdsIncrease ==
    [][last_request_id' = last_request_id
         \/ U32Less(last_request_id, last_request_id')]_vars

\* C7 as amended: the same, except that at the largest 32-bit value the
\* next id is zero
RequestIdsIncreaseUntilWrap ==
    [][\/ last_request_id' = last_request_id
       \/ last_request_id # U32Max /\ U32Less(last_request_id, last_request_id')
       \/ last_request_id = U32Max /\ last_request_id' = U32Zero]_vars

\* the counter has gone past the largest value
RequestIdsWrapWitness ==
    /\ last_request_id = U32Zero
    /\ Len(history) > 1

(***************************************************************************)
(* C8. Exactly-once delivery: a response is returned by at most one        *)
(* get_image query; two successive queries with no render in between       *)
(* never both return an image; a ready authoritative response is not lost  *)
(* unless returned or superseded by a newer render() or set_genome().      *)
(***************************************************************************)
ExactlyOnceDelivery ==
    /\ [](\A j \in 1..Len(pool) : delivered[j] <= 1)
    /\ [][GetImageStep /\ is_some(got) /\ is_some(got')
            => \E i \in RenderCalls : i > queried_at]_vars
    /\ [][is_some(current_response(slot, last_request_id))
            => \/ slot' = slot
               \/ GetImageStep /\ got' = slot
               \/ Len(history') > Len(history)]_vars

(***************************************************************************)
(* C10. Render determinism: the image PlasmaRenderer::render writes        *)
(* depends only on genome, settings, time, width and height: it is the     *)
(* image a fresh renderer writes, whatever render() calls came before, and *)
(* two renderers built alike agree on equal time and dimensions.           *)
(***************************************************************************)
RenderDeterminism ==
    /\ \A i \in 1..Len(rendered) :
         is_some(rendered[i]) =>
            LET c == unwrap(rendered[i])
            IN  c.image = direct_render(renderers[i].genome, renderers[i].settings,
                                        c.width, c.height, c.time)
    /\ \A i, j \in 1..Len(rendered) :
         is_some(rendered[i]) /\ is_some(rendered[j]) =>
            LET c == unwrap(rendered[i])
                d == unwrap(rendered[j])
            IN  c.width = d.width /\ c.height = d.height /\ c.time = d.time
                    => c.image.pixel_data = d.image.pixel_data

\* one renderer on its first call and one on a later call have rendered the
\* same frame, at a time other than the one a new renderer starts with
RenderDeterminismWitness ==
    /\ Len(rendered) = 2
    /\ is_some(rendered[1]) /\ is_some(rendered[2])
    /\ unwrap(rendered[1]).calls = 1 /\ unwrap(rendered[2]).calls = 2
    /\ unwrap(rendered[1]).time = unwrap(rendered[2]).time
    /\ unwrap(rendered[1]).width = unwrap(rendered[2]).width
    /\ unwrap(rendered[1]).height = unwrap(rendered[2]).height
    /\ wrap(unwrap(rendered[1]).time) # 0

(***************************************************************************)
(* C9. Decode faults are fatal and never swallowed: when a genome text     *)
(* given as a free argument or as a line of the input file does not        *)
(* decode, build_plasma_settings ends in a configuration error that names  *)
(* a text that does not decode, and no rendering starts.                   *)
(***************************************************************************)
SuppliedTexts(m) ==
    {m.free[k] : k \in 1..Len(m.free)}
        \cup (IF is_some(m.i) /\ unwrap(m.i).readable
              THEN {unwrap(m.i).lines[k] : k \in 1..Len(unwrap(m.i).lines)} ELSE {})

UndecodableTexts(m) == {t \in SuppliedTexts(m) : from_base64(trim(t)).tag = "Err"}

DecodeFaultsFatal ==
    is_some(matches) /\ is_some(outcome) /\ ~unwrap(matches).help
        /\ UndecodableTexts(unwrap(matches)) # {}
    => /\ unwrap(outcome).tag = "Exit"
       /\ unwrap(outcome).code = 1
       /\ \E t \in UndecodableTexts(unwrap(matches)) :
            unwrap(outcome).message = <<"Couldn't parse", t>>

(***************************************************************************)
(* colormapper.rs: ControlPoint::from_gene called on one Gene after        *)
(* another, as ColorMapper::new calls it on the genes of a chromosome      *)
(***************************************************************************)
\* the activation byte around the threshold and at both ends, every hue,
\* saturation and value at both ends, the position at both ends and between
ActivationBytes == {0, 1, 159, 160, 161, 162, 254, 255}
HueBytes == 0..255
EndBytes == {0, 255}
PositionBytes == {0, 1, 128, 255}
ControlPointGenes ==
    {<<a, h, s, v, p>> : a \in ActivationBytes, h \in HueBytes, s \in EndBytes,
                         v \in EndBytes, p \in PositionBytes}
\* Genes of another length, which the assert of from_gene turns down
OtherGenes == {<<255, 0, 255, 255>>, <<255, 0, 255, 255, 255, 0>>}

\* the Gene is there, from_gene has not been called on it yet
InitGene ==
    /\ AsyncRenderer_new(dummy_settings(FALSE), U32Zero)
    /\ NoDirectRenderer
    /\ NoCommandLine
    /\ gene \in {Some(data) : data \in ControlPointGenes \cup OtherGenes}
    /\ decoded = None

FromGene ==
    /\ is_none(decoded)
    /\ decoded' = Some(call_from_gene(unwrap(gene)))
    /\ UNCHANGED <<sched_vars, renderers, rendered, matches, outcome, gene>>

NextGene == FromGene

SpecGene == InitGene /\ [][NextGene]_vars

\* C11: for every 5-byte control-point gene, from_gene returns no control
\* point when byte 0 is at most 160 and exactly one control point when byte 0
\* is greater than 160, whose position is byte 4 divided by 256 and so lies
\* in [0, 1); it never fails for any gene of length 5.
ActivationGating ==
    (is_some(decoded) /\ Len(unwrap(gene)) = 5) =>
        LET data == unwrap(gene)
            call == unwrap(decoded)
        IN  /\ ~call.panicked
            /\ data[1] <= 160 => call.value = None
            /\ data[1] > 160 =>
                  /\ is_some(call.value)
                  /\ unwrap(call.value).position = data[5]
                  /\ 0 <= unwrap(call.value).position
                  /\ unwrap(call.value).position < 256

\* the gene of test_from_gene_position with the activation byte just over
\* the threshold: one control point at position 255/256
ActivationGatingWitness ==
    /\ gene = Some(<<161, 255, 255, 255, 255>>)
    /\ is_some(decoded)
    /\ ~unwrap(decoded).panicked
    /\ is_some(unwrap(decoded).value)
    /\ unwrap(unwrap(decoded).value).position = 255

(***************************************************************************)
(* C12. Cancellation is advisory: under fair scheduling of the worker pool *)
(* every job submitted by render() runs to completion and its handle yields *)
(* its image, also when a newer render() or set_genome() superseded it      *)
(* while it was queued or running; a superseded job's result is not         *)
(* surfaced as the current image, and that is all supersession does: the    *)
(* jobs in the pool never block a later render() or set_genome().           *)
(***************************************************************************)
\* job j was followed by a newer render() or by a set_genome()
Superseded(j) == j < Len(pool) \/ j <= JobsBeforeLastSetGenome

\* job j's handle holds the image that was asked for
HandleYieldsImage(j) ==
    /\ Len(pool) >= j
    /\ pool[j].state = "done"
    /\ is_some(pool[j].image)
    /\ unwrap(pool[j].image).width = history[CallOfJob(j)][2]
    /\ unwrap(pool[j].image).height = history[CallOfJob(j)][3]

EveryJobCompletes == \A j \in 1..MaxCalls : (Len(pool) >= j) ~> HandleYieldsImage(j)

SupersededNeverSurfaced ==
    [][GetImageStep /\ is_some(got') => ~Superseded(unwrap(got').job)]_vars

\* whatever the jobs in the pool are doing, the control thread can make its
\* next call: set_genome() with any genome and, once a genome is set, render()
SubmissionsNeverBlocked ==
    (status = "ok" /\ Len(history) < MaxCalls) =>
        /\ \A g \in Genomes : ENABLED set_genome(g)
        /\ genome_set => \A a \in RenderArgs : ENABLED render(a[1], a[2], a[3])

AdvisoryCancellation ==
    /\ EveryJobCompletes
    /\ SupersededNeverSurfaced
    /\ []SubmissionsNeverBlocked

====
